---------------------------- MODULE Spec2Model ----------------------------
(***************************************************************************)
(* Model of ofxStructureCore (src/src/ofxStructureCore.cpp).               *)
(*                                                                         *)
(* Threads share one object:                                               *)
(*   - the capture thread calls handleNewFrame / handleSessionEvent;       *)
(*   - the consumer (application) thread calls update(), start(), stop();  *)
(*   - the application calls the getters of the motion registers from any  *)
(*     of its threads.                                                     *)
(* The frame path (handleNewFrame, update, updatePointCloud) is modelled   *)
(* statement by statement, one step per shared-memory access, because the  *)
(* dirty flags and the cached intrinsics are accessed outside _frameLock.  *)
(* The session path (start, stop, handleSessionEvent) is modelled one      *)
(* action per handler.                                                     *)
(***************************************************************************)
EXTENDS Integers, Sequences, FiniteSets

VARIABLES
    \* ---- members of ofxStructureCore: frame path
    _frameLock,              \* owner of the std::mutex: "free", "capture", "consumer", "reader"
    _depthFrame,             \* latest frame of each modality (0: default-constructed)
    _irFrame,
    _visibleFrame,
    _depthDirty,
    _irDirty,
    _visibleDirty,
    _isFrameNew,
    _depthProjectionMatrix,
    _depthIntrinsics,
    _accelerometerEvent,
    _gyroscopeEvent,
    depthImg,                \* image containers, consumer thread only
    irImg,
    visibleImg,
    pointcloud,              \* pointcloud.vertices
    \* ---- members of ofxStructureCore: session path
    _isStreaming,
    _streamOnReady,
    \* ---- control state of the two threads
    cpc,                     \* capture thread: line of handleNewFrame it is at
    frame,                   \* argument of the handleNewFrame call in progress
    upc,                     \* consumer thread: line of update() it is at
    locals,                  \* updatePointCloud's locals _fx, _fy between its reads
    pix,                     \* update(): the pixel argument of setFromPixels, once evaluated
    gpc,                     \* a thread of the application in getAcceleration or
                             \* getGyroRotationRate: the line it is at
    sample,                  \* that getter's local a / r, as far as it has been read
    \* ---- observations (history, not program state)
    firstDepth,              \* first valid depth frame ever delivered (0: none yet)
    lastDepth,               \* the depth frame delivered last (0: none yet)
    marked,                  \* modalities whose dirty flag the call in progress set
    dSince,                  \* depth frames delivered since update() last returned (0,1,2+)
    quiet,                   \* no frame was delivered while the running update() ran
    cleanAtEntry,            \* all dirty flags were false when the running update() began
    drained,                 \* modalities the running update() has copied so far
    lastOp,                  \* session path: the last handler run and what it did
    afterStop,               \* stop() ran and the application has not called start() since
    faulted                  \* Disconnected came while streaming, and no start() by
                             \* the application since

depthSlot == <<_depthFrame, _depthDirty>>
visibleSlot == <<_visibleFrame, _visibleDirty>>
irSlot == <<_irFrame, _irDirty>>
calibration == <<_depthProjectionMatrix, _depthIntrinsics>>
motion == <<_accelerometerEvent, _gyroscopeEvent>>
containers == <<depthImg, irImg, visibleImg, pointcloud>>
captureCtl == <<cpc, frame, marked, firstDepth, lastDepth>>
consumerCtl == <<upc, locals, pix, _isFrameNew, cleanAtEntry, drained>>
readerCtl == <<gpc, sample>>
sessionVars == <<_isStreaming, _streamOnReady, lastOp, afterStop, faulted>>

vars == <<_frameLock, depthSlot, visibleSlot, irSlot, calibration, motion,
          containers, captureCtl, consumerCtl, readerCtl, dSince, quiet, sessionVars>>

-----------------------------------------------------------------------------
(* Inputs.  A frame payload is identified by a small integer; 0 is the      *)
(* default-constructed (invalid, empty) frame.                              *)

NumDepth == 2
NumVisible == 1
NumInfrared == 1
NumSamples == 1

DepthIds == 1..NumDepth
VisibleIds == 1..NumVisible
InfraredIds == 1..NumInfrared
SampleIds == 1..NumSamples

isValid(f) == f # 0

\* ST::DepthFrame accessors of payload k
width(k) == IF k = 0 THEN 0 ELSE 1 + (k % 2)
height(k) == IF k = 0 THEN 0 ELSE 1 + ((k \div 2) % 2)
depthInMillimeters(k) == [i \in 1..(width(k) * height(k)) |-> (k + i) % 3]
intrinsics(k) == [fx |-> k + 1, fy |-> k + 2, cx |-> k, cy |-> k - 1]

\* glm::mat4(1), the value _depthProjectionMatrix is compared with
IdentityMat == 1
\* a perspective projection built from a sensor's intrinsics is never the identity
glProjectionMatrix(k) == IdentityMat + k

\* ST::AccelerometerEvent::acceleration() and ST::GyroscopeEvent::rotationRate()
\* of sample k: the three axes
acceleration(k) == [x |-> k, y |-> 2 * k, z |-> 3 * k]
rotationRate(k) == [x |-> 0 - k, y |-> 0 - 2 * k, z |-> 0 - 3 * k]

\* ST::InfraredFrame / ST::ColorFrame accessors of payload k
irData(k) == 10 + k
rgbData(k) == 20 + k

\* the argument of handleNewFrame: its type and the payloads it carries
\* (d, v, i: depth, visible, infrared frame; s: motion sample)
Frame(type, d, v, i, s) == [type |-> type, d |-> d, v |-> v, i |-> i, s |-> s]

NoFrame == [type |-> "none", d |-> 0, v |-> 0, i |-> 0, s |-> 0]

\* an image container: its ofPixels (data, w, h) and the dimensions the
\* image reports, which ofImage::update() takes from the pixels
EmptyImg == [data |-> <<>>, w |-> 0, h |-> 0, width |-> 0, height |-> 0]

NoLocals == [fx |-> 0, fy |-> 0]
NoPixels == <<>>
NoSample == [x |-> 0, y |-> 0, z |-> 0]
NoOp == [op |-> "none", began |-> FALSE, ret |-> FALSE, calls |-> <<>>,
         before |-> <<FALSE, FALSE>>, prev |-> "none"]

\* values of the members before any handler ran (class declaration)
MemberDefaults ==
    [depthProjectionMatrix |-> IdentityMat,
     depthIntrinsics |-> [fx |-> 0, fy |-> 0, cx |-> 0, cy |-> 0],
     dirty |-> FALSE, isStreaming |-> FALSE, streamOnReady |-> FALSE]

Init ==
    /\ _frameLock = "free"
    /\ _depthFrame = 0 /\ _irFrame = 0 /\ _visibleFrame = 0
    /\ _depthDirty = MemberDefaults.dirty
    /\ _irDirty = MemberDefaults.dirty
    /\ _visibleDirty = MemberDefaults.dirty
    /\ _isFrameNew = FALSE
    /\ _depthProjectionMatrix = MemberDefaults.depthProjectionMatrix
    /\ _depthIntrinsics = MemberDefaults.depthIntrinsics
    /\ _accelerometerEvent = 0 /\ _gyroscopeEvent = 0
    /\ depthImg = EmptyImg /\ irImg = EmptyImg /\ visibleImg = EmptyImg
    /\ pointcloud = <<>>
    /\ _isStreaming = MemberDefaults.isStreaming
    /\ _streamOnReady = MemberDefaults.streamOnReady
    /\ cpc = "idle" /\ frame = NoFrame
    /\ upc = "idle" /\ locals = NoLocals /\ pix = NoPixels
    /\ gpc = "idle" /\ sample = NoSample
    /\ firstDepth = 0 /\ lastDepth = 0 /\ marked = {} /\ dSince = 0
    /\ quiet = TRUE /\ cleanAtEntry = FALSE /\ drained = {}
    /\ lastOp = NoOp
    /\ afterStop = FALSE /\ faulted = FALSE


-----------------------------------------------------------------------------
(* handleNewFrame, on the capture thread.  cpc names the source line the    *)
(* thread is about to execute ("idle": not in handleNewFrame).  A           *)
(* unique_lock is taken at the first line of a block and released when the  *)
(* block is left.  The frame is the caller's and nobody else reads it, so   *)
(* each payload of the argument is drawn at the line that first reads it.   *)

\* a locked section of handleNewFrame that runs while update() is running
\* counts as a frame delivered during that update()
Disturb == IF upc = "idle" THEN quiet ELSE FALSE

\* StoreDepth keeping an undrained frame instead of overwriting it
StoreDepth_FirstWins(k, next) ==
    /\ _frameLock = "free"
    /\ _frameLock' = "capture"
    /\ _depthFrame' = IF _depthDirty THEN _depthFrame ELSE k
    /\ firstDepth' = IF firstDepth = 0 THEN k ELSE firstDepth
    /\ lastDepth' = k
    /\ quiet' = Disturb
    /\ cpc' = next
    /\ UNCHANGED <<_depthDirty, marked, dSince, visibleSlot, irSlot, calibration,
                   motion, containers, consumerCtl, readerCtl, sessionVars>>

\* lines 118-119, 137-138: lock, _depthFrame = frame.depthFrame
StoreDepth(k, next) ==
    /\ _frameLock = "free"
    /\ _frameLock' = "capture"
    /\ _depthFrame' = k
    /\ firstDepth' = IF firstDepth = 0 THEN k ELSE firstDepth
    /\ lastDepth' = k
    /\ quiet' = Disturb
    /\ cpc' = next
    /\ UNCHANGED <<_depthDirty, marked, dSince, visibleSlot, irSlot, calibration,
                   motion, containers, consumerCtl, readerCtl, sessionVars>>

\* lines 120-121, 139-140: _depthDirty = true, unlock
MarkDepth(at, next) ==
    /\ cpc = at
    /\ _frameLock = "capture"
    /\ _depthDirty' = TRUE
    /\ _frameLock' = "free"
    /\ marked' = IF _depthDirty' THEN marked \cup {"depth"} ELSE marked
    /\ dSince' = IF upc = "idle" THEN (IF dSince < 2 THEN dSince + 1 ELSE 2)
                 ELSE dSince
    /\ quiet' = Disturb
    /\ cpc' = next
    /\ UNCHANGED <<_depthFrame, frame, firstDepth, lastDepth, visibleSlot, irSlot,
                   calibration, motion, containers, consumerCtl, readerCtl, sessionVars>>

\* lines 124-125, 142-143: lock, _visibleFrame = frame.visibleFrame
StoreVisible(k, next) ==
    /\ _frameLock = "free"
    /\ _frameLock' = "capture"
    /\ _visibleFrame' = k
    /\ quiet' = Disturb
    /\ cpc' = next
    /\ UNCHANGED <<_visibleDirty, marked, firstDepth, lastDepth, dSince, depthSlot, irSlot,
                   calibration, motion, containers, consumerCtl, readerCtl, sessionVars>>

\* lines 126-127, 144-145: _visibleDirty = true, unlock
MarkVisible(at, next) ==
    /\ cpc = at
    /\ _frameLock = "capture"
    /\ _visibleDirty' = TRUE
    /\ _frameLock' = "free"
    /\ marked' = IF _visibleDirty' THEN marked \cup {"visible"} ELSE marked
    /\ quiet' = Disturb
    /\ cpc' = next
    /\ UNCHANGED <<_visibleFrame, frame, firstDepth, lastDepth, dSince, depthSlot, irSlot,
                   calibration, motion, containers, consumerCtl, readerCtl, sessionVars>>

\* lines 130-131, 147-148: lock, _irFrame = frame.infraredFrame
StoreInfrared(k, next) ==
    /\ _frameLock = "free"
    /\ _frameLock' = "capture"
    /\ _irFrame' = k
    /\ quiet' = Disturb
    /\ cpc' = next
    /\ UNCHANGED <<_irDirty, marked, firstDepth, lastDepth, dSince, depthSlot, visibleSlot,
                   calibration, motion, containers, consumerCtl, readerCtl, sessionVars>>

\* lines 132-133, 149-150: _irDirty = true, unlock
MarkInfrared(at, next) ==
    /\ cpc = at
    /\ _frameLock = "capture"
    /\ _irDirty' = TRUE
    /\ _frameLock' = "free"
    /\ marked' = IF _irDirty' THEN marked \cup {"ir"} ELSE marked
    /\ quiet' = Disturb
    /\ cpc' = next
    /\ UNCHANGED <<_irFrame, frame, firstDepth, lastDepth, dSince, depthSlot, visibleSlot,
                   calibration, motion, containers, consumerCtl, readerCtl, sessionVars>>

\* a step of the capture thread that writes no member
Pass(next) ==
    /\ cpc' = next
    /\ UNCHANGED <<_frameLock, depthSlot, visibleSlot, irSlot, calibration,
                   motion, containers, marked, firstDepth, lastDepth, consumerCtl, readerCtl, dSince,
                   quiet, sessionVars>>

\* case Frame::Type::DepthFrame, lines 117-119
DepthFrameStore(ids) ==
    /\ cpc = "idle"
    /\ \E k \in ids :
          /\ frame' = Frame("DepthFrame", k, 0, 0, 0)
          /\ StoreDepth(k, "c120")

\* lines 120-121
DepthFrameMark == MarkDepth("c120", "c167")

\* case Frame::Type::VisibleFrame, lines 123-125
VisibleFrameStore ==
    /\ cpc = "idle"
    /\ \E k \in VisibleIds :
          /\ frame' = Frame("VisibleFrame", 0, k, 0, 0)
          /\ StoreVisible(k, "c126")

\* lines 126-127
VisibleFrameMark == MarkVisible("c126", "c167")

\* case Frame::Type::InfraredFrame, lines 129-131
InfraredFrameStore ==
    /\ cpc = "idle"
    /\ \E k \in InfraredIds :
          /\ frame' = Frame("InfraredFrame", 0, 0, k, 0)
          /\ StoreInfrared(k, "c132")

\* lines 132-133
InfraredFrameMark == MarkInfrared("c132", "c167")

\* case Frame::Type::SynchronizedFrames, line 135
SyncBegin ==
    /\ cpc = "idle"
    /\ frame' = Frame("SynchronizedFrames", 0, 0, 0, 0)
    /\ Pass("c136")

\* lines 136-138: if ( frame.depthFrame.isValid() ) { lock, store
SyncDepthStore(ids) ==
    /\ cpc = "c136"
    /\ \E k \in {0} \cup ids :
          /\ isValid(k)
          /\ frame' = [frame EXCEPT !.d = k]
          /\ StoreDepth(k, "c139")

\* line 136, the depth sub-frame is not valid
SyncDepthSkip(ids) ==
    /\ cpc = "c136"
    /\ \E k \in {0} \cup ids :
          /\ ~isValid(k)
          /\ frame' = [frame EXCEPT !.d = k]
    /\ Pass("c141")

\* lines 139-140
SyncDepthMark == MarkDepth("c139", "c141")

\* lines 141-143: if ( frame.visibleFrame.isValid() ) { lock, store
SyncVisibleStore ==
    /\ cpc = "c141"
    /\ \E k \in {0} \cup VisibleIds :
          /\ isValid(k)
          /\ frame' = [frame EXCEPT !.v = k]
          /\ StoreVisible(k, "c144")

\* SyncVisibleSkip storing the sub-frame although it is not valid
SyncVisibleSkip_Stores ==
    /\ cpc = "c141"
    /\ \E k \in {0} \cup VisibleIds :
          /\ ~isValid(k)
          /\ frame' = [frame EXCEPT !.v = k]
          /\ StoreVisible(k, "c144")

\* line 141, the visible sub-frame is not valid
SyncVisibleSkip ==
    /\ cpc = "c141"
    /\ \E k \in {0} \cup VisibleIds :
          /\ ~isValid(k)
          /\ frame' = [frame EXCEPT !.v = k]
    /\ Pass("c146")

\* lines 144-145
SyncVisibleMark == MarkVisible("c144", "c146")

\* lines 146-148: if ( frame.infraredFrame.isValid() ) { lock, store
SyncInfraredStore ==
    /\ cpc = "c146"
    /\ \E k \in {0} \cup InfraredIds :
          /\ isValid(k)
          /\ frame' = [frame EXCEPT !.i = k]
          /\ StoreInfrared(k, "c149")

\* line 146, the infrared sub-frame is not valid
SyncInfraredSkip ==
    /\ cpc = "c146"
    /\ \E k \in {0} \cup InfraredIds :
          /\ ~isValid(k)
          /\ frame' = [frame EXCEPT !.i = k]
    /\ Pass("c167")

\* lines 149-150
SyncInfraredMark == MarkInfrared("c149", "c167")

\* AccelerometerStore overwriting both motion registers
AccelerometerStore_BothRegisters ==
    /\ cpc = "idle"
    /\ _frameLock = "free"
    /\ \E k \in SampleIds :
          /\ frame' = Frame("AccelerometerEvent", 0, 0, 0, k)
          /\ _accelerometerEvent' = k
          /\ _gyroscopeEvent' = k
    /\ _frameLock' = "capture"
    /\ cpc' = "c156"
    /\ UNCHANGED <<depthSlot, visibleSlot, irSlot, calibration,
                   containers, marked, firstDepth, lastDepth, consumerCtl, readerCtl, dSince, quiet,
                   sessionVars>>

\* case Frame::Type::AccelerometerEvent, lines 153-155
AccelerometerStore ==
    /\ cpc = "idle"
    /\ _frameLock = "free"
    /\ \E k \in SampleIds :
          /\ frame' = Frame("AccelerometerEvent", 0, 0, 0, k)
          /\ _accelerometerEvent' = k
    /\ _frameLock' = "capture"
    /\ cpc' = "c156"
    /\ UNCHANGED <<_gyroscopeEvent, depthSlot, visibleSlot, irSlot, calibration,
                   containers, marked, firstDepth, lastDepth, consumerCtl, readerCtl, dSince, quiet,
                   sessionVars>>

\* case Frame::Type::GyroscopeEvent, lines 158-160
GyroscopeStore ==
    /\ cpc = "idle"
    /\ _frameLock = "free"
    /\ \E k \in SampleIds :
          /\ frame' = Frame("GyroscopeEvent", 0, 0, 0, k)
          /\ _gyroscopeEvent' = k
    /\ _frameLock' = "capture"
    /\ cpc' = "c161"
    /\ UNCHANGED <<_accelerometerEvent, depthSlot, visibleSlot, irSlot,
                   calibration, containers, marked, firstDepth, lastDepth, consumerCtl, readerCtl,
                   dSince, quiet, sessionVars>>

\* lines 156 and 161: the motion event's block is left, unlock
MotionUnlock ==
    /\ cpc \in {"c156", "c161"}
    /\ _frameLock = "capture"
    /\ _frameLock' = "free"
    /\ cpc' = "c167"
    /\ UNCHANGED <<frame, depthSlot, visibleSlot, irSlot, calibration, motion,
                   containers, marked, firstDepth, lastDepth, consumerCtl, readerCtl, dSince, quiet,
                   sessionVars>>

\* default, lines 163-165: a frame of any other type is only logged
UnhandledFrame ==
    /\ cpc = "idle"
    /\ frame' = Frame("Other", 0, 0, 0, 0)
    /\ Pass("c167")

\* CaptureGuard without the test of the sentinel
CaptureGuard_NoSentinel == _depthDirty

\* line 167: the guard of the one-time capture of the intrinsics
CaptureGuard == _depthDirty /\ _depthProjectionMatrix = IdentityMat

\* lines 167-168, after the switch, for every frame type, outside the lock
CaptureProjection ==
    /\ cpc = "c167"
    /\ CaptureGuard
    /\ _depthProjectionMatrix' = glProjectionMatrix(_depthFrame)
    /\ cpc' = "c169"
    /\ UNCHANGED <<_frameLock, _depthIntrinsics, depthSlot, visibleSlot, irSlot,
                   motion, containers, frame, marked, firstDepth, lastDepth, consumerCtl, readerCtl,
                   dSince, quiet, sessionVars>>

\* line 169: _depthIntrinsics = _depthFrame.intrinsics(), then return
CaptureIntrinsics ==
    /\ cpc = "c169"
    /\ _depthIntrinsics' = intrinsics(_depthFrame)
    /\ cpc' = "idle"
    /\ frame' = NoFrame
    /\ marked' = {}
    /\ UNCHANGED <<_frameLock, _depthProjectionMatrix, depthSlot, visibleSlot,
                   irSlot, motion, containers, firstDepth, lastDepth, consumerCtl, readerCtl, dSince,
                   quiet, sessionVars>>

\* line 167 with the guard false, then return
CaptureSkip ==
    /\ cpc = "c167"
    /\ ~CaptureGuard
    /\ cpc' = "idle"
    /\ frame' = NoFrame
    /\ marked' = {}
    /\ UNCHANGED <<_frameLock, calibration, depthSlot, visibleSlot, irSlot,
                   motion, containers, firstDepth, lastDepth, consumerCtl, readerCtl, dSince, quiet,
                   sessionVars>>

-----------------------------------------------------------------------------
(* update() and updatePointCloud(), on the consumer thread.  upc names the  *)
(* source line the thread is about to execute ("idle": not in update()).    *)

\* ofPixels::setFromPixels( data, w, h, channels ): the container's pixels
setFromPixels(img, data, w, h) == [img EXCEPT !.data = data, !.w = w, !.h = h]

\* ofImage::update(): the image takes its dimensions from its pixels
imgUpdate(img) == [img EXCEPT !.width = img.w, !.height = img.h]

\* a float quotient n / d, kept as the pair of its operands
Quot(n, d) == <<n, d>>

\* lines 230-232: the vertex of pixel (r, c) with depth value depth
Unproject(depth, r, c, fx, fy, cx, cy) ==
    [x |-> Quot(depth * (c - cx), fx),
     y |-> Quot(depth * (r - cy), fy),
     z |-> depth]

\* line 226: int i = r * cols + c
PixelIndex(r, c, cols) == r * cols + c

\* line 223: vertices.resize( nVerts ) keeps the elements it has room for
Resize(verts, n) ==
    [j \in 1..n |-> IF j <= Len(verts) THEN verts[j]
                    ELSE [x |-> Quot(0, 1), y |-> Quot(0, 1), z |-> 0]]

\* lines 224-234: the two nested loops, from pixel (r, c) on.  C++ index i
\* is position i + 1 of a TLA+ sequence.
RECURSIVE ProjectLoop(_, _, _, _, _, _, _)
ProjectLoop(verts, r, c, rows, cols, depths, k) ==
    IF r >= rows THEN verts
    ELSE IF c >= cols THEN ProjectLoop(verts, r + 1, 0, rows, cols, depths, k)
    ELSE LET i == PixelIndex(r, c, cols)
             depth == depths[i + 1]
         IN  ProjectLoop([verts EXCEPT ![i + 1] =
                              Unproject(depth, r, c, k.fx, k.fy, k.cx, k.cy)],
                         r, c + 1, rows, cols, depths, k)

\* lines 213-234, given the intrinsics k that lines 217-220 read
Rebuild(img, verts, k) ==
    LET cols == img.width
        rows == img.height
        nVerts == rows * cols
    IN  ProjectLoop(Resize(verts, nVerts), 0, 0, rows, cols, img.data, k)

\* what no step of update() writes
ConsumerKeeps ==
    UNCHANGED <<_depthFrame, _irFrame, _visibleFrame, calibration, motion,
                captureCtl, readerCtl, sessionVars>>

\* line 37: _isFrameNew = _depthDirty || _irDirty || _visibleDirty, read
\* outside the lock, left to right with short circuit.  First read:
ReadDepthDirty ==
    /\ upc = "idle"
    /\ IF _depthDirty
       THEN _isFrameNew' = TRUE /\ upc' = "u39"
       ELSE UNCHANGED _isFrameNew /\ upc' = "u37i"
    /\ quiet' = TRUE
    /\ cleanAtEntry' = ~(_depthDirty \/ _irDirty \/ _visibleDirty)
    /\ UNCHANGED <<_frameLock, _depthDirty, _irDirty, _visibleDirty, containers,
                   locals, dSince, drained, pix>>
    /\ ConsumerKeeps

\* line 37, second read
ReadIrDirty ==
    /\ upc = "u37i"
    /\ IF _irDirty
       THEN _isFrameNew' = TRUE /\ upc' = "u39"
       ELSE UNCHANGED _isFrameNew /\ upc' = "u37v"
    /\ UNCHANGED <<_frameLock, _depthDirty, _irDirty, _visibleDirty, containers,
                   locals, dSince, quiet, cleanAtEntry, drained, pix>>
    /\ ConsumerKeeps

\* line 37, third read
ReadVisibleDirty ==
    /\ upc = "u37v"
    /\ _isFrameNew' = _visibleDirty
    /\ upc' = "u39"
    /\ UNCHANGED <<_frameLock, _depthDirty, _irDirty, _visibleDirty, containers,
                   locals, dSince, quiet, cleanAtEntry, drained, pix>>
    /\ ConsumerKeeps

\* a step of update() that only tests a flag
Branch(at, cond, then, else) ==
    /\ upc = at
    /\ upc' = IF cond THEN then ELSE else
    /\ UNCHANGED <<_frameLock, _depthDirty, _irDirty, _visibleDirty, _isFrameNew,
                   containers, locals, dSince, quiet, cleanAtEntry, drained, pix>>
    /\ ConsumerKeeps

\* the closing brace of a locked block of update()
Unlock(at, next) ==
    /\ upc = at
    /\ _frameLock = "consumer"
    /\ _frameLock' = "free"
    /\ upc' = next
    /\ UNCHANGED <<_depthDirty, _irDirty, _visibleDirty, _isFrameNew,
                   containers, locals, dSince, quiet, cleanAtEntry, drained, pix>>
    /\ ConsumerKeeps

\* TestDepthDirty draining the depth frame whatever the flag says
TestDepthDirty_Always == Branch("u39", TRUE, "u41", "u49")

\* line 39: if ( _depthDirty )
TestDepthDirty == Branch("u39", _depthDirty, "u41", "u49")

\* CopyDepth reading the frame without taking _frameLock
CopyDepth_NoLock ==
    /\ upc = "u41"
    /\ pix' = depthInMillimeters(_depthFrame)
    /\ upc' = "u42"
    /\ UNCHANGED <<_frameLock, _depthDirty, _irDirty, _visibleDirty, _isFrameNew,
                   containers, locals, dSince, quiet, cleanAtEntry, drained>>
    /\ ConsumerKeeps

\* lines 41-42: lock, then the first argument of setFromPixels is evaluated:
\* _depthFrame.depthInMillimeters()
CopyDepth ==
    /\ upc = "u41"
    /\ _frameLock = "free"
    /\ _frameLock' = "consumer"
    /\ pix' = depthInMillimeters(_depthFrame)
    /\ upc' = "u42"
    /\ UNCHANGED <<_depthDirty, _irDirty, _visibleDirty, _isFrameNew, containers,
                   locals, dSince, quiet, cleanAtEntry, drained>>
    /\ ConsumerKeeps

\* line 42: _depthFrame.width() and .height() are evaluated and
\* setFromPixels fills depthImg's pixels
SetDepthPixels ==
    /\ upc = "u42"
    /\ depthImg' = setFromPixels(depthImg, pix, width(_depthFrame), height(_depthFrame))
    /\ pix' = NoPixels
    /\ upc' = "u43"
    /\ drained' = drained \cup {"depth"}
    /\ UNCHANGED <<_frameLock, _depthDirty, _irDirty, _visibleDirty, _isFrameNew,
                   irImg, visibleImg, pointcloud, locals, dSince, quiet, cleanAtEntry>>
    /\ ConsumerKeeps

\* line 43
UnlockDepth == Unlock("u43", "u44")

\* line 44 and, in updatePointCloud, lines 213-218: depthImg.update(), then
\* the reads of _depthIntrinsics.fx and .fy, outside the lock
UpdateDepthImg ==
    /\ upc = "u44"
    /\ depthImg' = imgUpdate(depthImg)
    /\ locals' = [fx |-> _depthIntrinsics.fx, fy |-> _depthIntrinsics.fy]
    /\ upc' = "u219"
    /\ UNCHANGED <<_frameLock, _depthDirty, _irDirty, _visibleDirty, _isFrameNew,
                   irImg, visibleImg, pointcloud, dSince, quiet, cleanAtEntry, drained, pix>>
    /\ ConsumerKeeps

\* lines 219-235: the reads of _depthIntrinsics.cx and .cy, then the rebuild
updatePointCloud ==
    /\ upc = "u219"
    /\ pointcloud' = Rebuild(depthImg, pointcloud,
                             [fx |-> locals.fx, fy |-> locals.fy,
                              cx |-> _depthIntrinsics.cx,
                              cy |-> _depthIntrinsics.cy])
    /\ locals' = NoLocals
    /\ upc' = "u47"
    /\ UNCHANGED <<_frameLock, _depthDirty, _irDirty, _visibleDirty, _isFrameNew,
                   depthImg, irImg, visibleImg, dSince, quiet, cleanAtEntry, drained, pix>>
    /\ ConsumerKeeps

\* line 47: _depthDirty = false
ClearDepthDirty ==
    /\ upc = "u47"
    /\ _depthDirty' = FALSE
    /\ upc' = "u49"
    /\ UNCHANGED <<_frameLock, _irDirty, _visibleDirty, _isFrameNew, containers,
                   locals, dSince, quiet, cleanAtEntry, drained, pix>>
    /\ ConsumerKeeps

\* line 49: if ( _irDirty )
TestIrDirty == Branch("u49", _irDirty, "u51", "u57")

\* lines 51-52: lock, then the first argument of setFromPixels is evaluated:
\* _irFrame.data()
CopyInfrared ==
    /\ upc = "u51"
    /\ _frameLock = "free"
    /\ _frameLock' = "consumer"
    /\ pix' = irData(_irFrame)
    /\ upc' = "u52"
    /\ UNCHANGED <<_depthDirty, _irDirty, _visibleDirty, _isFrameNew, containers,
                   locals, dSince, quiet, cleanAtEntry, drained>>
    /\ ConsumerKeeps

\* line 52: _irFrame.width() and .height() are evaluated and setFromPixels
\* fills irImg's pixels
SetInfraredPixels ==
    /\ upc = "u52"
    /\ irImg' = setFromPixels(irImg, pix, width(_irFrame), height(_irFrame))
    /\ pix' = NoPixels
    /\ upc' = "u53"
    /\ drained' = drained \cup {"ir"}
    /\ UNCHANGED <<_frameLock, _depthDirty, _irDirty, _visibleDirty, _isFrameNew,
                   depthImg, visibleImg, pointcloud, locals, dSince, quiet, cleanAtEntry>>
    /\ ConsumerKeeps

\* line 53
UnlockInfrared == Unlock("u53", "u54")

\* lines 54-55: irImg.update(), _irDirty = false
ClearIrDirty ==
    /\ upc = "u54"
    /\ irImg' = imgUpdate(irImg)
    /\ _irDirty' = FALSE
    /\ upc' = "u57"
    /\ UNCHANGED <<_frameLock, _depthDirty, _visibleDirty, _isFrameNew, depthImg,
                   visibleImg, pointcloud, locals, dSince, quiet, cleanAtEntry, drained, pix>>
    /\ ConsumerKeeps

\* line 57: if ( _visibleDirty )
TestVisibleDirty == Branch("u57", _visibleDirty, "u59", "u65")

\* lines 59-60: lock, then the first argument of setFromPixels is evaluated:
\* _visibleFrame.rgbData()
CopyVisible ==
    /\ upc = "u59"
    /\ _frameLock = "free"
    /\ _frameLock' = "consumer"
    /\ pix' = rgbData(_visibleFrame)
    /\ upc' = "u60"
    /\ UNCHANGED <<_depthDirty, _irDirty, _visibleDirty, _isFrameNew, containers,
                   locals, dSince, quiet, cleanAtEntry, drained>>
    /\ ConsumerKeeps

\* line 60: _visibleFrame.width() and .height() are evaluated and
\* setFromPixels fills visibleImg's pixels
SetVisiblePixels ==
    /\ upc = "u60"
    /\ visibleImg' = setFromPixels(visibleImg, pix, width(_visibleFrame),
                                   height(_visibleFrame))
    /\ pix' = NoPixels
    /\ upc' = "u61"
    /\ drained' = drained \cup {"visible"}
    /\ UNCHANGED <<_frameLock, _depthDirty, _irDirty, _visibleDirty, _isFrameNew,
                   depthImg, irImg, pointcloud, locals, dSince, quiet, cleanAtEntry>>
    /\ ConsumerKeeps

\* line 61
UnlockVisible == Unlock("u61", "u62")

\* lines 62-63: visibleImg.update(), _visibleDirty = false
ClearVisibleDirty ==
    /\ upc = "u62"
    /\ visibleImg' = imgUpdate(visibleImg)
    /\ _visibleDirty' = FALSE
    /\ upc' = "u65"
    /\ UNCHANGED <<_frameLock, _depthDirty, _irDirty, _isFrameNew, depthImg,
                   irImg, pointcloud, locals, dSince, quiet, cleanAtEntry, drained, pix>>
    /\ ConsumerKeeps

\* line 65: update() returns
ReturnFromUpdate ==
    /\ upc = "u65"
    /\ upc' = "idle"
    /\ dSince' = 0
    /\ quiet' = TRUE
    /\ cleanAtEntry' = FALSE
    /\ drained' = {}
    /\ UNCHANGED <<_frameLock, _depthDirty, _irDirty, _visibleDirty, _isFrameNew,
                   containers, locals, pix>>
    /\ ConsumerKeeps

-----------------------------------------------------------------------------
(* getAcceleration() and getGyroRotationRate(), called by the application   *)
(* from any of its threads.  gpc names the source line the caller is about  *)
(* to execute ("idle": not in a getter).  The copy of the register into the *)
(* local is several loads, one axis after another.                          *)

\* what no step of a getter writes
ReaderKeeps ==
    UNCHANGED <<depthSlot, visibleSlot, irSlot, calibration, motion, containers,
                captureCtl, consumerCtl, dSince, quiet, sessionVars>>

\* a getter's first step: lock, then the first axis of the register v is read
ReadX(v, next) ==
    /\ gpc = "idle"
    /\ _frameLock = "free"
    /\ _frameLock' = "reader"
    /\ sample' = [sample EXCEPT !.x = v.x]
    /\ gpc' = next
    /\ ReaderKeeps

\* the other two axes of the register v are read
ReadYZ(at, v, next) ==
    /\ gpc = at
    /\ sample' = [sample EXCEPT !.y = v.y, !.z = v.z]
    /\ gpc' = next
    /\ UNCHANGED _frameLock
    /\ ReaderKeeps

\* ReturnSample leaving without releasing _frameLock
ReturnSample_KeepsLock(at) ==
    /\ gpc = at
    /\ _frameLock = "reader"
    /\ UNCHANGED _frameLock
    /\ sample' = NoSample
    /\ gpc' = "idle"
    /\ ReaderKeeps

\* return { a.x, a.y, a.z }: the vector is built from the local, the lock is
\* released
ReturnSample(at) ==
    /\ gpc = at
    /\ _frameLock = "reader"
    /\ _frameLock' = "free"
    /\ sample' = NoSample
    /\ gpc' = "idle"
    /\ ReaderKeeps

\* ReadAccelerationX reading the register without taking _frameLock
ReadAccelerationX_NoLock ==
    /\ gpc = "idle"
    /\ sample' = [sample EXCEPT !.x = acceleration(_accelerometerEvent).x]
    /\ gpc' = "a77"
    /\ UNCHANGED _frameLock
    /\ ReaderKeeps

\* lines 76-77: getAcceleration() locks and starts the copy of
\* _accelerometerEvent.acceleration()
ReadAccelerationX == ReadX(acceleration(_accelerometerEvent), "a77")

\* line 77, the rest of the copy
ReadAccelerationYZ == ReadYZ("a77", acceleration(_accelerometerEvent), "a78")

\* lines 78-79
ReturnAcceleration == ReturnSample("a78")

\* lines 69-70: getGyroRotationRate() locks and starts the copy of
\* _gyroscopeEvent.rotationRate()
ReadRotationRateX == ReadX(rotationRate(_gyroscopeEvent), "g70")

\* line 70, the rest of the copy
ReadRotationRateYZ == ReadYZ("g70", rotationRate(_gyroscopeEvent), "g71")

\* lines 71-72
ReturnRotationRate == ReturnSample("g71")

-----------------------------------------------------------------------------
(* start(), stop() and handleSessionEvent(), one action per handler.        *)
(* lastOp records the handler that ran last: the state it found (before),   *)
(* what _captureSession.startStreaming() answered (began), what start()     *)
(* returned (ret) and the calls made on _captureSession (calls).            *)

SessionEvents ==
    {"Booting", "Ready", "Connected", "Streaming", "Disconnected", "Error", "Other"}

Op(op, began, ret, calls) ==
    [op |-> op, began |-> began, ret |-> ret, calls |-> calls,
     before |-> <<_isStreaming, _streamOnReady>>, prev |-> lastOp.op]

\* line 21: if ( !_isStreaming && !_streamOnReady )
ArmsRetry(isStreaming, streamOnReady) == ~isStreaming /\ ~streamOnReady

\* startBody assigning the condition of line 21 to _streamOnReady
startBody_Reassigns(began) ==
    /\ _isStreaming' = began
    /\ _streamOnReady' = ArmsRetry(_isStreaming', _streamOnReady)

\* lines 19-25, began being the answer of _captureSession.startStreaming()
startBody(began) ==
    /\ _isStreaming' = began
    /\ _streamOnReady' = IF ArmsRetry(_isStreaming', _streamOnReady)
                         THEN TRUE ELSE _streamOnReady

\* lines 17-26: start(), called by the application
start ==
    /\ \E began \in BOOLEAN :
          /\ startBody(began)
          /\ lastOp' = Op("start", began, _isStreaming', <<"startStreaming">>)
    /\ afterStop' = FALSE
    /\ faulted' = FALSE

\* stop() leaving the deferred start pending
stop_KeepsRetry ==
    /\ _isStreaming' = FALSE
    /\ UNCHANGED _streamOnReady
    /\ lastOp' = Op("stop", FALSE, FALSE, <<"stopStreaming">>)
    /\ afterStop' = TRUE
    /\ UNCHANGED faulted

\* lines 28-33: stop()
stop ==
    /\ _isStreaming' = FALSE
    /\ _streamOnReady' = FALSE
    /\ lastOp' = Op("stop", FALSE, FALSE, <<"stopStreaming">>)
    /\ afterStop' = TRUE
    /\ UNCHANGED faulted

\* RetryPending retrying whenever the sensor is not streaming
RetryPending_NotStreaming == ~_isStreaming

\* line 186: if ( _streamOnReady )
RetryPending == _streamOnReady

\* lines 184-190: case Ready with _streamOnReady set
ReadyRetry ==
    /\ RetryPending
    /\ \E began \in BOOLEAN :
          /\ startBody(began)
          /\ lastOp' = Op("Ready", began, _isStreaming', <<"startStreaming">>)
    /\ UNCHANGED <<afterStop, faulted>>

\* lines 184-190: case Ready with _streamOnReady clear
ReadyIdle ==
    /\ ~RetryPending
    /\ lastOp' = Op("Ready", FALSE, FALSE, <<>>)
    /\ UNCHANGED <<_isStreaming, _streamOnReady, afterStop, faulted>>

\* lines 194-197: case Streaming
StreamingEvent ==
    /\ _isStreaming' = TRUE
    /\ lastOp' = Op("Streaming", FALSE, FALSE, <<>>)
    /\ UNCHANGED <<_streamOnReady, afterStop, faulted>>

\* lines 198-201: case Disconnected
DisconnectedEvent ==
    /\ _isStreaming' = FALSE
    /\ lastOp' = Op("Disconnected", FALSE, FALSE, <<>>)
    /\ faulted' = (_isStreaming \/ faulted)
    /\ UNCHANGED <<_streamOnReady, afterStop>>

\* lines 181-183, 191-193, 202-207: events that are only logged
LoggedEvent ==
    /\ \E evt \in SessionEvents \ {"Ready", "Streaming", "Disconnected"} :
          lastOp' = Op(evt, FALSE, FALSE, <<>>)
    /\ UNCHANGED <<_isStreaming, _streamOnReady, afterStop, faulted>>

\* lines 177-208
handleSessionEvent ==
    \/ ReadyRetry
    \/ ReadyIdle
    \/ StreamingEvent
    \/ DisconnectedEvent
    \/ LoggedEvent

frameVars == <<_frameLock, depthSlot, visibleSlot, irSlot, calibration, motion,
               containers, captureCtl, consumerCtl, readerCtl, dSince, quiet>>

NextSession ==
    \/ (start \/ stop \/ handleSessionEvent) /\ UNCHANGED frameVars

SpecSession == Init /\ [][NextSession]_vars

-----------------------------------------------------------------------------
(* The frame path with the three image modalities: single frames and        *)
(* bundles of depth, visible and infrared frames, against update().         *)

\* one depth payload is enough where the other two modalities are the subject
BundleDepthIds == {1}

NextImages ==
    \/ DepthFrameStore(BundleDepthIds) \/ DepthFrameMark
    \/ VisibleFrameStore \/ VisibleFrameMark
    \/ InfraredFrameStore \/ InfraredFrameMark
    \/ SyncBegin
    \/ SyncDepthStore(BundleDepthIds) \/ SyncDepthSkip(BundleDepthIds)
    \/ SyncDepthMark
    \/ SyncVisibleStore \/ SyncVisibleSkip \/ SyncVisibleMark
    \/ SyncInfraredStore \/ SyncInfraredSkip \/ SyncInfraredMark
    \/ CaptureProjection \/ CaptureIntrinsics \/ CaptureSkip
    \/ ReadDepthDirty \/ ReadIrDirty \/ ReadVisibleDirty
    \/ TestDepthDirty \/ CopyDepth \/ SetDepthPixels \/ UnlockDepth \/ UpdateDepthImg
    \/ updatePointCloud \/ ClearDepthDirty
    \/ TestIrDirty \/ CopyInfrared \/ SetInfraredPixels \/ UnlockInfrared \/ ClearIrDirty
    \/ TestVisibleDirty \/ CopyVisible \/ SetVisiblePixels \/ UnlockVisible \/ ClearVisibleDirty
    \/ ReturnFromUpdate

SpecImages == Init /\ [][NextImages]_vars

(* The depth path: depth frames, alone or in a bundle, and frames of no     *)
(* handled type, against update().  The steps left out are those that no    *)
(* such input enables.                                                      *)

Next ==
    \/ DepthFrameStore(DepthIds) \/ DepthFrameMark
    \/ SyncBegin
    \/ SyncDepthStore(DepthIds) \/ SyncDepthSkip(DepthIds) \/ SyncDepthMark
    \/ SyncVisibleSkip \/ SyncInfraredSkip
    \/ UnhandledFrame
    \/ CaptureProjection \/ CaptureIntrinsics \/ CaptureSkip
    \/ ReadDepthDirty \/ ReadIrDirty \/ ReadVisibleDirty
    \/ TestDepthDirty \/ CopyDepth \/ SetDepthPixels \/ UnlockDepth \/ UpdateDepthImg
    \/ updatePointCloud \/ ClearDepthDirty
    \/ TestIrDirty \/ TestVisibleDirty
    \/ ReturnFromUpdate

Spec == Init /\ [][Next]_vars

(* Single depth frames, with every depth payload, and single infrared       *)
(* frames, against update().  The visible block of update() (lines 57-64)   *)
(* repeats the infrared block (lines 49-56) and is left to SpecImages.      *)

NextPixels ==
    \/ DepthFrameStore(DepthIds) \/ DepthFrameMark
    \/ InfraredFrameStore \/ InfraredFrameMark
    \/ CaptureProjection \/ CaptureIntrinsics \/ CaptureSkip
    \/ ReadDepthDirty \/ ReadIrDirty \/ ReadVisibleDirty
    \/ TestDepthDirty \/ CopyDepth \/ SetDepthPixels \/ UnlockDepth \/ UpdateDepthImg
    \/ updatePointCloud \/ ClearDepthDirty
    \/ TestIrDirty \/ CopyInfrared \/ SetInfraredPixels \/ UnlockInfrared \/ ClearIrDirty
    \/ TestVisibleDirty
    \/ ReturnFromUpdate

SpecPixels == Init /\ [][NextPixels]_vars

(* Motion events and frames of no handled type, between depth frames and    *)
(* against update().                                                        *)

NextMotion ==
    \/ AccelerometerStore \/ GyroscopeStore \/ MotionUnlock
    \/ UnhandledFrame
    \/ DepthFrameStore(DepthIds) \/ DepthFrameMark
    \/ CaptureProjection \/ CaptureIntrinsics \/ CaptureSkip
    \/ ReadDepthDirty \/ ReadIrDirty \/ ReadVisibleDirty
    \/ TestDepthDirty \/ CopyDepth \/ SetDepthPixels \/ UnlockDepth \/ UpdateDepthImg
    \/ updatePointCloud \/ ClearDepthDirty
    \/ TestIrDirty \/ TestVisibleDirty
    \/ ReturnFromUpdate

SpecMotion == Init /\ [][NextMotion]_vars

(* The three users of _frameLock together: motion events and depth frames  *)
(* on the capture thread, update() on the consumer thread, and the two      *)
(* getters.                                                                 *)

NextRegisters ==
    \/ AccelerometerStore \/ GyroscopeStore \/ MotionUnlock
    \/ DepthFrameStore(BundleDepthIds) \/ DepthFrameMark
    \/ CaptureProjection \/ CaptureIntrinsics \/ CaptureSkip
    \/ ReadDepthDirty \/ ReadIrDirty \/ ReadVisibleDirty
    \/ TestDepthDirty \/ CopyDepth \/ SetDepthPixels \/ UnlockDepth \/ UpdateDepthImg
    \/ updatePointCloud \/ ClearDepthDirty
    \/ TestIrDirty \/ TestVisibleDirty
    \/ ReturnFromUpdate
    \/ ReadAccelerationX \/ ReadAccelerationYZ \/ ReturnAcceleration
    \/ ReadRotationRateX \/ ReadRotationRateYZ \/ ReturnRotationRate

SpecRegisters == Init /\ [][NextRegisters]_vars

\* a step of a thread inside a call, as opposed to the start of a new call
CaptureStep == NextRegisters /\ cpc # "idle" /\ cpc' # cpc
ConsumerStep == NextRegisters /\ upc # "idle" /\ upc' # upc
ReaderStep == NextRegisters /\ gpc # "idle" /\ gpc' # gpc

\* fair scheduling: a thread inside a call goes on running, and a thread
\* waiting for _frameLock (update() at line 41) gets it if it is released
\* again and again
FairScheduling ==
    /\ WF_vars(CaptureStep)
    /\ WF_vars(ConsumerStep)
    /\ WF_vars(ReaderStep)
    /\ SF_vars(CopyDepth)

SpecFair == SpecRegisters /\ FairScheduling

-----------------------------------------------------------------------------
(* Properties.                                                              *)

\* the container img holds exactly the pixels data, w x h, and reports them
Holds(img, data, w, h) ==
    /\ img.data = data
    /\ img.w = w /\ img.h = h
    /\ img.width = w /\ img.height = h

DepthImgHolds(k) ==
    Holds(depthImg, depthInMillimeters(k), width(k), height(k))

\* update() has run to its end and the capture thread delivered nothing
\* while it ran
QuietUpdateDone == upc = "u65" /\ quiet

\* C1 (latest wins): when two depth frames were delivered between two
\* update() calls and none while the second update() ran, then at the end of
\* that update() depthImg holds the data of the second frame and _depthDirty
\* is false.
C1_LatestWins ==
    (QuietUpdateDone /\ dSince = 2)
        => (DepthImgHolds(lastDepth) /\ ~_depthDirty)

\* two different depth frames came between the two calls, the second is shown
C1_Witness ==
    /\ QuietUpdateDone /\ dSince = 2
    /\ firstDepth # lastDepth
    /\ DepthImgHolds(lastDepth)

\* no locked section of handleNewFrame is open
NoDeliveryInProgress == _frameLock # "capture"

IntrinsicsCaptured == _depthProjectionMatrix # IdentityMat /\ cpc # "c169"

\* C3 (captured once): once the intrinsics have been captured, no step of
\* either thread changes fx, fy, cx, cy or the cached projection matrix.
C3_CapturedOnce ==
    [][IntrinsicsCaptured => UNCHANGED <<_depthIntrinsics, _depthProjectionMatrix>>]_vars

\* captured from one frame, and a frame with other projection data has been
\* delivered and handled since
C3_Witness ==
    /\ IntrinsicsCaptured
    /\ cpc = "idle"
    /\ lastDepth # 0
    /\ glProjectionMatrix(lastDepth) # _depthProjectionMatrix
    /\ intrinsics(lastDepth) # _depthIntrinsics

\* C4 (captured from the first frame): the cached intrinsics are those of the
\* first valid depth frame delivered, whatever the interleaving with update().
C4_FirstFrameIntrinsics ==
    IntrinsicsCaptured => _depthIntrinsics = intrinsics(firstDepth)

\* the last handler called _captureSession.startStreaming()
StartAttempted == lastOp.calls = <<"startStreaming">>

\* C5 (result of start): start() returns true exactly when the stream began,
\* and when it did not begin start() returns false with _streamOnReady true,
\* whether or not it was true before the call.
C5_StartResult ==
    StartAttempted =>
        /\ lastOp.ret = lastOp.began
        /\ ~lastOp.began => (~lastOp.ret /\ _streamOnReady)

\* start() by the application failed while a deferred start was pending
C5_Witness ==
    /\ lastOp.op = "start"
    /\ ~lastOp.began
    /\ lastOp.before[2]
    /\ ~lastOp.ret /\ _streamOnReady

\* C6 (retry on Ready): a Ready event calls start() exactly when
\* _streamOnReady is set at that moment: once when it is set, and not at all,
\* changing no flag, when it is clear.
C6_ReadyRetries ==
    lastOp.op = "Ready" =>
        IF lastOp.before[2]
        THEN lastOp.calls = <<"startStreaming">>
        ELSE /\ lastOp.calls = <<>>
             /\ <<_isStreaming, _streamOnReady>> = lastOp.before

\* a Ready event found the deferred start pending and retried
C6_Witness ==
    /\ lastOp.op = "Ready"
    /\ lastOp.before[2]
    /\ lastOp.calls = <<"startStreaming">>
    /\ lastOp.prev = "start"

\* C7 (stop): after stop(), from any state, _isStreaming and _streamOnReady
\* are false, and a second stop() in a row leaves the state of the first.
C7_StopClears ==
    lastOp.op = "stop" =>
        /\ ~_isStreaming /\ ~_streamOnReady
        /\ lastOp.prev = "stop" =>
               <<_isStreaming, _streamOnReady>> = lastOp.before

\* stop() found both flags set
C7_Witness ==
    /\ lastOp.op = "stop"
    /\ lastOp.before = <<TRUE, TRUE>>
    /\ ~_isStreaming /\ ~_streamOnReady

\* the modalities whose sub-frame of the bundle f is valid
ValidIn(f) ==
    {m \in {"depth", "visible", "ir"} :
        \/ m = "depth" /\ isValid(f.d)
        \/ m = "visible" /\ isValid(f.v)
        \/ m = "ir" /\ isValid(f.i)}

\* the switch of a SynchronizedFrames call is done
BundleHandled == cpc = "c167" /\ frame.type = "SynchronizedFrames"

\* a step of the capture thread inside a SynchronizedFrames call
BundleStep == frame.type = "SynchronizedFrames" /\ cpc' # cpc

\* C8 (bundles): a SynchronizedFrames call replaces the slot and sets the
\* dirty flag of exactly the modalities whose sub-frame is valid, and none of
\* its steps changes the slot or the flag of a modality whose sub-frame is
\* not valid.
C8_BundleWritesValidOnly ==
    /\ [](BundleHandled =>
            /\ marked = ValidIn(frame)
            /\ isValid(frame.d) => _depthFrame = frame.d
            /\ isValid(frame.v) => _visibleFrame = frame.v
            /\ isValid(frame.i) => _irFrame = frame.i)
    /\ [][BundleStep =>
            /\ ~isValid(frame'.d) => UNCHANGED depthSlot
            /\ ~isValid(frame'.v) => UNCHANGED visibleSlot
            /\ ~isValid(frame'.i) => UNCHANGED irSlot]_vars

\* a bundle with only a valid depth sub-frame was handled while the visible
\* and infrared slots held frames
C8_Witness ==
    /\ BundleHandled
    /\ ValidIn(frame) = {"depth"}
    /\ marked = {"depth"}
    /\ _visibleFrame # 0 /\ _irFrame # 0

\* a step of update() in a call that found no dirty flag set and that no
\* frame delivery has disturbed
CleanQuietStep ==
    /\ upc' # upc
    /\ \/ upc = "idle" /\ cleanAtEntry' /\ quiet'
       \/ upc # "idle" /\ cleanAtEntry /\ quiet

\* C9 (nothing to drain): an update() call that finds all three dirty flags
\* false, with no frame delivered while it runs, changes none of depthImg,
\* irImg, visibleImg and the point cloud, and leaves _isFrameNew false.
C9_NothingToDrain ==
    /\ []((QuietUpdateDone /\ cleanAtEntry) => ~_isFrameNew)
    /\ [][CleanQuietStep => UNCHANGED containers]_vars

\* such a call has run to its end after all three containers had been filled
C9_Witness ==
    /\ QuietUpdateDone /\ cleanAtEntry
    /\ ~_isFrameNew
    /\ depthImg # EmptyImg /\ irImg # EmptyImg /\ visibleImg # EmptyImg
    /\ pointcloud # <<>>

\* the point cloud is the unprojection of depthImg with the intrinsics k
CloudMatches(k) ==
    LET cols == depthImg.width
        rows == depthImg.height
    IN  /\ Len(pointcloud) = rows * cols
        /\ \A i \in 0..(rows * cols - 1) :
              LET r == i \div cols
                  c == i % cols
                  d == depthImg.data[i + 1]
              IN  pointcloud[i + 1] =
                      [x |-> Quot(d * (c - k.cx), k.fx),
                       y |-> Quot(d * (r - k.cy), k.fy),
                       z |-> d]

CloudMatchesCached == CloudMatches(_depthIntrinsics)

\* C10 (point cloud): when a rebuild ends, the point cloud has rows * cols
\* vertices and vertex i is (d*(c-cx)/fx, d*(r-cy)/fy, d), with r = i / cols,
\* c = i % cols, d the depth at that pixel (zero included) and fx, fy, cx, cy
\* the cached intrinsics.
C10_RebuildMatchesCached ==
    [][(upc = "u219" /\ upc' = "u47") => CloudMatchesCached']_vars

\* the last session event was a fault: Disconnected or Error
FaultEvent == lastOp.op \in {"Disconnected", "Error"}

\* C11 (faults stop streaming): after a Disconnected event and after an Error
\* event, _isStreaming is false.
C11_FaultClearsStreaming == FaultEvent => ~_isStreaming

\* C12 (no silent retry): once streaming was reached and a Disconnected event
\* came, a Ready event makes no start attempt as long as the application has
\* not called start() itself.
C12_NoSilentRetry ==
    (lastOp.op = "Ready" /\ faulted) => ~StartAttempted

\* C19 (stopped until start): from the end of stop() until the application
\* next calls start(), _isStreaming and _streamOnReady stay false whatever
\* session event is delivered.
C19_StoppedUntilStart ==
    afterStop => (~_isStreaming /\ ~_streamOnReady)

\* a step of update() that reads or writes a frame slot or a dirty flag:
\* the reads of line 37, the tests of lines 39, 49, 57, the copies of lines
\* 42, 52, 60 and the clears of lines 47, 55, 63
ConsumerAccess ==
    /\ upc' # upc
    /\ \/ upc = "idle" /\ upc' \in {"u37i", "u39"}
       \/ upc \in {"u37i", "u37v", "u39", "u41", "u42", "u47", "u49", "u51",
                   "u52", "u54", "u57", "u59", "u60", "u62"}

\* a step of handleNewFrame that reads or writes a frame slot or a dirty
\* flag: the stores and marks of the switch, the read of _depthDirty at line
\* 167 and the reads of _depthFrame at lines 168 and 169
CaptureAccess ==
    /\ cpc' # cpc
    /\ \/ <<depthSlot, visibleSlot, irSlot>>' # <<depthSlot, visibleSlot, irSlot>>
       \/ cpc \in {"c167", "c169"}

\* the thread owner holds _frameLock during the step
HeldDuring(owner) == _frameLock = owner \/ _frameLock' = owner

\* C13 (lock discipline): every read and every write of a frame slot or a
\* dirty flag, by handleNewFrame and by update(), happens while the accessing
\* thread holds _frameLock.
C13_AccessUnderLock ==
    [][/\ ConsumerAccess => HeldDuring("consumer")
       /\ CaptureAccess => HeldDuring("capture")]_vars

\* update() has run to its last line: _isFrameNew is what the call reports
UpdateDone == upc = "u65"

\* C14 (is-new-frame tells what was drained): when update() reports
\* _isFrameNew false it has copied no frame, so changed no container and
\* rebuilt no point cloud, and when it reports true it has drained at least
\* one modality, also when frames are delivered while it runs.
C14_ReportMatchesDrain ==
    UpdateDone => IF _isFrameNew THEN drained # {} ELSE drained = {}

\* the pixels of img are those of one frame of ids: data, width and height
\* of the same frame (never written: still empty)
OneFrame(img, data(_), ids) ==
    IF img.w = 0
    THEN img.h = 0 /\ img.data = NoPixels
    ELSE \E k \in ids :
            img.data = data(k) /\ img.w = width(k) /\ img.h = height(k)

\* the image reports the size of its pixels
SizeReported(img) == img.width = img.w /\ img.height = img.h

\* C15 (coherent snapshot): the pixel data, width and height of each of
\* depthImg, irImg and visibleImg come from one single frame delivered for
\* that modality, in every interleaving with handleNewFrame, and outside the
\* lines between the copy and the image's update() the image reports that
\* frame's size.
C15_OneFramePerImage ==
    /\ OneFrame(depthImg, depthInMillimeters, DepthIds)
    /\ OneFrame(irImg, irData, InfraredIds)
    /\ OneFrame(visibleImg, rgbData, VisibleIds)
    /\ upc \notin {"u43", "u44"} => SizeReported(depthImg)
    /\ upc \notin {"u53", "u54"} => SizeReported(irImg)
    /\ upc \notin {"u61", "u62"} => SizeReported(visibleImg)

\* update() has copied a depth and an infrared frame while frames were
\* delivered, and the depth slot already holds a newer frame than depthImg
C15_Witness ==
    /\ UpdateDone /\ ~quiet
    /\ drained = {"depth", "ir"}
    /\ _depthFrame # 0 /\ depthImg.w # 0
    /\ ~DepthImgHolds(_depthFrame)

\* the type of the frame a step of handleNewFrame is handling
CallType == IF cpc = "idle" THEN frame'.type ELSE frame.type

\* a step of a handleNewFrame call for a frame of type type
CallStep(type) == cpc' # cpc /\ CallType = type

\* every member of the object but the two motion registers
NonMotionMembers ==
    <<depthSlot, visibleSlot, irSlot, calibration, containers, _isFrameNew,
      _isStreaming, _streamOnReady>>

\* C16 (frames that are not images): no step of handleNewFrame for a frame of
\* unrecognized type changes any member, and the steps for an
\* AccelerometerEvent or a GyroscopeEvent change, besides the lock they take
\* and release, only _accelerometerEvent or _gyroscopeEvent respectively:
\* the frame slots, the dirty flags, the cached intrinsics and the cached
\* projection matrix stay as they are, whatever the state at the call.
C16_OnlyMotionRegister ==
    [][/\ CallStep("Other") =>
            UNCHANGED <<_frameLock, NonMotionMembers, motion>>
       /\ CallStep("AccelerometerEvent") =>
            UNCHANGED <<NonMotionMembers, _gyroscopeEvent>>
       /\ CallStep("GyroscopeEvent") =>
            UNCHANGED <<NonMotionMembers, _accelerometerEvent>>]_vars

\* a motion event or an unrecognized frame reached line 167 while a depth
\* frame was waiting undrained and the other motion register held a sample
C16_Witness ==
    /\ cpc = "c167"
    /\ frame.type \in {"Other", "AccelerometerEvent", "GyroscopeEvent"}
    /\ _depthDirty
    /\ _accelerometerEvent # 0 /\ _gyroscopeEvent # 0

\* C20 (motion getters): getAcceleration and getGyroRotationRate read the
\* register while holding _frameLock, the lock handleNewFrame holds while it
\* overwrites the register, so the vector a getter returns has its three
\* axes from one single event, the one most recently written.
C20_WholeSample ==
    /\ gpc \in {"a77", "a78", "g70", "g71"} => _frameLock = "reader"
    /\ cpc \in {"c156", "c161"} => _frameLock = "capture"
    /\ gpc = "a78" => sample = acceleration(_accelerometerEvent)
    /\ gpc = "g71" => sample = rotationRate(_gyroscopeEvent)
    /\ cpc = "c156" => _accelerometerEvent = frame.s
    /\ cpc = "c161" => _gyroscopeEvent = frame.s

\* getAcceleration is about to return the sample of an event, after events of
\* both kinds were delivered
C20_Witness ==
    /\ gpc = "a78"
    /\ sample = acceleration(_accelerometerEvent)
    /\ _accelerometerEvent # 0
    /\ cpc = "idle"
    /\ _gyroscopeEvent # 0

\* the lines at which a thread takes _frameLock
LockLines ==
    [capture |-> {"idle", "c136", "c141", "c146"},
     consumer |-> {"u41", "u51", "u59"},
     reader |-> {"idle"}]

\* where each thread is
Line == [capture |-> cpc, consumer |-> upc, reader |-> gpc]

\* no thread is at a line that takes the lock while it holds the lock, and no
\* thread holds it outside a call
LockUsedOnce ==
    \A th \in {"capture", "consumer", "reader"} :
        Line[th] \in LockLines[th] => _frameLock # th

\* some call is in progress
CallInProgress == cpc # "idle" \/ upc # "idle" \/ gpc # "idle"

\* some thread inside a call can take its next step
NoDeadlock ==
    CallInProgress => ENABLED (CaptureStep \/ ConsumerStep \/ ReaderStep)

RebuildRunning == upc = "u219"

\* C18 (rebuild after capture): whenever update() rebuilds the point cloud,
\* the intrinsics have been captured from a depth frame, in every
\* interleaving of handleNewFrame and update().
C18_RebuildAfterCapture == RebuildRunning => IntrinsicsCaptured

=============================================================================
